---------------------------- MODULE Spec2Model ----------------------------
(***************************************************************************)
(* cebackup: the archive lifecycle (make_backup), the checksum ledger      *)
(* (Metadata, metadata.json) and the retention pruner (cleanup_backups)    *)
(* of src/cebackup/backup.py.                                              *)
(*                                                                         *)
(* File names are strings, modelled as sequences of ASCII codes, so that   *)
(* sorting by name, startswith/endswith and the archive-name regular       *)
(* expression are computed on the characters as Python computes them.      *)
(* Times are integer epoch seconds.                                        *)
(*                                                                         *)
(* Three specifications share the state:                                   *)
(*   Spec        make_backup runs and cleanup_backups calls on a directory *)
(*               that starts empty, with the clock and the user around;    *)
(*   SpecPrune   cleanup_backups on directories and ledgers drawn from a   *)
(*               pool of archive names of two prefixes and foreign files;  *)
(*   SpecLedger  the Metadata class driven through its methods.            *)
(***************************************************************************)
EXTENDS Integers, Sequences, FiniteSets, TLC

(***************************************************************************)
(* Bounds of the model.                                                    *)
(***************************************************************************)
MaxRuns == 2          \* make_backup runs in one behaviour of Spec
MaxSecTicks == 2      \* one-second clock steps after the last long step
MaxJumps == 1         \* long clock steps (between calls) in one behaviour
MaxVersion == 1       \* distinct contents the source files take
MaxKeepArchives == 1  \* keep_archives ranges over 0..MaxKeepArchives in Spec
MaxTimeout == 1       \* the run budget ranges over 0..MaxTimeout seconds
MaxFiles == 3         \* files in a directory drawn by SpecPrune
MaxCalls == 5         \* Metadata method calls in one behaviour of SpecLedger

(***************************************************************************)
(* Program constants.                                                      *)
(***************************************************************************)
DaySecs == 86400

(***************************************************************************)
(* Strings.                                                                *)
(***************************************************************************)
Str_us   == <<95>>                   \* "_"
Str_dash == <<45>>                   \* "-"
Str_T    == <<84>>                   \* "T"
Str_tar  == <<46, 116, 97, 114>>     \* ".tar"
Str_gz   == <<46, 103, 122>>         \* ".gz"
Str_gpg  == <<46, 103, 112, 103>>    \* ".gpg"

IsDigit(c) == c >= 48 /\ c <= 57
IsLower(c) == c >= 97 /\ c <= 122
IsUpper(c) == c >= 65 /\ c <= 90
\* \w of the re module, on ASCII.
IsWord(c) == IsDigit(c) \/ IsLower(c) \/ IsUpper(c) \/ c = 95

\* str.startswith
StartsWith(s, p) ==
    /\ Len(p) <= Len(s)
    /\ \A i \in 1..Len(p) : s[i] = p[i]

\* str.endswith
EndsWith(s, p) ==
    /\ Len(p) <= Len(s)
    /\ \A i \in 1..Len(p) : s[Len(s) - Len(p) + i] = p[i]

\* Python's str comparison: by code point at the first difference, a proper
\* prefix is smaller.
RECURSIVE StrLessFrom(_, _, _)
StrLessFrom(a, b, i) ==
    IF i > Len(b) THEN FALSE
    ELSE IF i > Len(a) THEN TRUE
    ELSE IF a[i] = b[i] THEN StrLessFrom(a, b, i + 1)
    ELSE a[i] < b[i]

StrLess(a, b) == StrLessFrom(a, b, 1)

\* The number of decimal digits of n >= 0.
RECURSIVE Digits(_)
Digits(n) == IF n < 10 THEN 1 ELSE 1 + Digits(n \div 10)

\* n written in w decimal digits (the low w digits, zero padded): the
\* fields of strftime.
Pad(n, w) == [i \in 1..w |-> 48 + ((n \div (10 ^ (w - i))) % 10)]

\* "{}".format(n) for an int n >= 0: the decimal digits, no padding.
Dec(n) == Pad(n, Digits(n))

\* int(s) for a string of decimal digits.
RECURSIVE ParseDec(_)
ParseDec(s) ==
    IF Len(s) = 0 THEN 0
    ELSE 10 * ParseDec(SubSeq(s, 1, Len(s) - 1)) + (s[Len(s)] - 48)

(***************************************************************************)
(* Calendar: time.gmtime / time.localtime of epoch seconds (proleptic      *)
(* Gregorian calendar, days counted from 1970-01-01).                      *)
(***************************************************************************)
CivilYMD(yoe, era, doy, mp) ==
    [year |-> yoe + era * 400 + (IF mp >= 10 THEN 1 ELSE 0),
     mon  |-> IF mp < 10 THEN mp + 3 ELSE mp - 9,
     mday |-> doy - (153 * mp + 2) \div 5 + 1]

CivilDoy(yoe, era, doy) == CivilYMD(yoe, era, doy, (5 * doy + 2) \div 153)

CivilYoe(era, doe, yoe) ==
    CivilDoy(yoe, era, doe - (365 * yoe + yoe \div 4 - yoe \div 100))

CivilDoe(era, doe) ==
    CivilYoe(era, doe,
        (doe - doe \div 1460 + doe \div 36524 - doe \div 146096) \div 365)

CivilEra(z) == CivilDoe(z \div 146097, z % 146097)

\* The civil date of a day number.
CivilFromDays(days) == CivilEra(days + 719468)

TmOf(c, sod) ==
    [tm_year |-> c.year, tm_mon |-> c.mon, tm_mday |-> c.mday,
     tm_hour |-> sod \div 3600, tm_min |-> (sod % 3600) \div 60,
     tm_sec |-> sod % 60]

\* time.gmtime(t)
gmtime(t) == TmOf(CivilFromDays(t \div DaySecs), t % DaySecs)

\* The zone of the host, east of UTC: localtime(t) is gmtime(t + UtcOffset).
UtcOffset == 2 * 3600

\* time.localtime(t)
localtime(t) == gmtime(t + UtcOffset)

\* time.strftime("%Y%m%dT%H%M%S", tm)
strftime(tm) ==
    Pad(tm.tm_year, 4) \o Pad(tm.tm_mon, 2) \o Pad(tm.tm_mday, 2) \o Str_T
        \o Pad(tm.tm_hour, 2) \o Pad(tm.tm_min, 2) \o Pad(tm.tm_sec, 2)

(***************************************************************************)
(* Archive names.                                                          *)
(***************************************************************************)
\* BackupArchive.__init__: the name is built once from the creation instant.
archivename(prefix, t) ==
    prefix \o Str_us \o Dec(t) \o Str_us \o strftime(localtime(t)) \o Str_tar

\* BackupArchive.path_encrypted, for a compressed file name.
path_encrypted(compressed_file) == compressed_file \o Str_gpg

\* The tail of the pattern after the ten digits: _\w+\.tar[a-z0-9\.]*$,
\* tried at position j of s (the position of the second underscore).
TailMatches(s, j) ==
    /\ j <= Len(s)
    /\ s[j] = 95
    /\ \E k \in (j + 1)..(Len(s) - Len(Str_tar)) :
          /\ \A x \in 1..Len(Str_tar) : s[k + x] = Str_tar[x]
          /\ \A x \in (j + 1)..k : IsWord(s[x])
          /\ \A x \in (k + Len(Str_tar) + 1)..Len(s) :
                IsLower(s[x]) \/ IsDigit(s[x]) \/ s[x] = 46

\* The lengths i of the lazy head [\w-]*? for which the whole pattern
\* [\w-]*?_(\d{10})_\w+\.tar[a-z0-9\.]*$ matches s from its start.
HeadLengths(s) ==
    {i \in 0..(Len(s) - 11) :
        /\ s[i + 1] = 95
        /\ \A x \in 1..i : IsWord(s[x]) \/ s[x] = 45
        /\ \A x \in (i + 2)..(i + 11) : IsDigit(s[x])
        /\ TailMatches(s, i + 12)}

\* re.match(...) is not None
IsArchiveName(s) == HeadLengths(s) # {}

Least(S) == CHOOSE h \in S : \A g \in S : h <= g

GroupAt(s, i) == SubSeq(s, i + 2, i + 11)

\* m[1]: the lazy head takes the shortest length that lets the rest match.
EpochGroup(s) == GroupAt(s, Least(HeadLengths(s)))

\* "{}-{}".format(t.tm_year, t.tm_mon)
MonthOf(t) == Dec(t.tm_year) \o Str_dash \o Dec(t.tm_mon)

\* get_month_from_backup_file for a name that matches; a name that does not
\* match raises BackupException("Invalid archive name") (see Consider).
get_month_from_backup_file(filename) ==
    MonthOf(gmtime(ParseDec(EpochGroup(filename))))

(***************************************************************************)
(* Sorting.                                                                *)
(***************************************************************************)
\* sorted(names, reverse=True) for a set of distinct strings: a name's
\* place is one more than the number of names greater than it.
SortNamesDesc(S) ==
    [i \in 1..Cardinality(S) |->
        CHOOSE f \in S : Cardinality({g \in S : StrLess(f, g)}) = i - 1]

\* seq[k:] of Python, for any integer k.
SliceStart(n, k) ==
    IF k >= 0 THEN (IF k > n THEN n ELSE k)
    ELSE (IF n + k < 0 THEN 0 ELSE n + k)

PySliceFrom(seq, k) == SubSeq(seq, SliceStart(Len(seq), k) + 1, Len(seq))

\* The place of seq[i] after the stable ascending sort by touched.
RankByTouched(seq, i) ==
    1 + Cardinality({j \in 1..Len(seq) :
            \/ seq[j].touched < seq[i].touched
            \/ (seq[j].touched = seq[i].touched /\ j < i)})

\* list.sort(key=lambda arch: arch["touched"])
SortByTouched(seq) ==
    [p \in 1..Len(seq) |->
        seq[CHOOSE i \in 1..Len(seq) : RankByTouched(seq, i) = p]]

\* The place of seq[i] after the stable ascending sort of the paths (paths
\* are numbered in string order).
RankPath(seq, i) ==
    1 + Cardinality({j \in 1..Len(seq) :
            \/ seq[j] < seq[i]
            \/ (seq[j] = seq[i] /\ j < i)})

\* list.sort() of the path list.
SortPaths(seq) ==
    [p \in 1..Len(seq) |-> seq[CHOOSE i \in 1..Len(seq) : RankPath(seq, i) = p]]

\* The k-th smallest element of a set of numbers.
Nth(S, k) == CHOOSE x \in S : Cardinality({y \in S : y < x}) = k - 1

(***************************************************************************)
(* Metadata: the ledger.  An entry is a record with the fields archive,    *)
(* encrypted, open_checksum, created and touched.  _archives is the list   *)
(* of entries; _checksums maps a checksum to the position in the list of   *)
(* the entry object the dict refers to.                                    *)
(***************************************************************************)
None == [none |-> TRUE]

Last(S) == CHOOSE i \in S : \A j \in S : j <= i

First(S) == CHOOSE i \in S : \A j \in S : i <= j

\* Metadata._set_checksums: a dict comprehension, the last entry of a
\* checksum wins.
set_checksums(archives) ==
    [c \in {archives[i].open_checksum : i \in DOMAIN archives} |->
        Last({i \in DOMAIN archives : archives[i].open_checksum = c})]

\* Metadata.__init__ on the content of metadata.json (<<>> when the file
\* does not exist).
Metadata(file) == [archives |-> file, checksums |-> set_checksums(file)]

\* Metadata.get_archive
get_archive(m, chk) ==
    IF chk \in DOMAIN m.checksums THEN m.archives[m.checksums[chk]] ELSE None

Matches(archives, name) ==
    {i \in DOMAIN archives : archives[i].encrypted = name}

FirstMatch(archives, S) == IF S = {} THEN None ELSE archives[First(S)]

\* Metadata.get_from_encrypted_name: the first entry of the list with
\* that encrypted name.
get_from_encrypted_name(m, name) ==
    FirstMatch(m.archives, Matches(m.archives, name))

\* list.remove(x) at the position p of the first element equal to x, and
\* the positions the dict refers to after it.
RemoveAt(m, chk, p) ==
    [archives |->
        [i \in 1..(Len(m.archives) - 1) |->
            IF i < p THEN m.archives[i] ELSE m.archives[i + 1]],
     checksums |->
        [c \in DOMAIN m.checksums \ {chk} |->
            IF m.checksums[c] > p THEN m.checksums[c] - 1 ELSE m.checksums[c]]]

\* dict.pop(chk) raises KeyError when chk is not a key.
CanRemove(m, chk) == chk \in DOMAIN m.checksums

RemoveEntry(m, chk, arch) ==
    RemoveAt(m, chk, First({i \in DOMAIN m.archives : m.archives[i] = arch}))

\* Variant of Metadata.remove that forgets nothing.
Metadata_remove_keep(m, chk) == m

\* Metadata.remove, when chk is a key.
Metadata_remove(m, chk) == RemoveEntry(m, chk, m.archives[m.checksums[chk]])

\* Variant of the appended dict whose encrypted name is the compressed
\* file's own name.
NewEntry_same(chk, compressed_file, atime) ==
    [archive |-> compressed_file,
     encrypted |-> compressed_file,
     open_checksum |-> chk,
     created |-> atime,
     touched |-> atime]

\* The dict appended by Metadata.add.
NewEntry(chk, compressed_file, atime) ==
    [archive |-> compressed_file,
     encrypted |-> path_encrypted(compressed_file),
     open_checksum |-> chk,
     created |-> atime,
     touched |-> atime]

\* Variant of the refresh that leaves touched as it was.
Touch_keep(arch, tnow) == arch

\* arch["touched"] = time.time()
Touch(arch, tnow) == [arch EXCEPT !.touched = tnow]

TouchAt(m, i, tnow) ==
    [m EXCEPT !.archives = [m.archives EXCEPT ![i] = Touch(m.archives[i], tnow)]]

AppendEntry(m, e) == Metadata(Append(m.archives, e))

\* Variant of Metadata.add that appends whether or not chk is known.
Metadata_add_append(m, chk, compressed_file, atime, tnow) ==
    AppendEntry(m, [archive |-> compressed_file,
                    encrypted |-> path_encrypted(compressed_file),
                    open_checksum |-> chk,
                    created |-> atime,
                    touched |-> atime])

\* Metadata.add(chk, archive) at time tnow, for an archive with the given
\* compressed file name and creation instant.
Metadata_add(m, chk, compressed_file, atime, tnow) ==
    IF chk \in DOMAIN m.checksums
    THEN TouchAt(m, m.checksums[chk], tnow)
    ELSE AppendEntry(m, NewEntry(chk, compressed_file, atime))

\* Metadata.write: the in-memory ledger afterwards; the file holds its
\* archives.
Metadata_write(m) == Metadata(SortByTouched(m.archives))

(***************************************************************************)
(* cleanup_backups.                                                        *)
(***************************************************************************)
\* The listing: files of the directory whose name starts with the prefix
\* and ends with ".gpg".
Backups(files, prefix) ==
    {f \in files : StartsWith(f, prefix) /\ EndsWith(f, Str_gpg)}

\* backups[keep_archives:] after the descending sort by name.
Candidates(files, prefix, keep_archives) ==
    PySliceFrom(SortNamesDesc(Backups(files, prefix)), keep_archives)

Delete(w, bk, chk) ==
    IF CanRemove(w.m, chk)
    THEN [w EXCEPT !.files = w.files \ {bk}, !.m = Metadata_remove(w.m, chk)]
    ELSE [w EXCEPT !.files = w.files \ {bk}, !.raised = "KeyError"]

\* Variant of the loop body without the month rule.
Decide_norep(w, bk, month, meta, age_limit) ==
    IF meta = None THEN w
    ELSE IF meta.touched < age_limit THEN Delete(w, bk, meta.open_checksum)
    ELSE w

\* Variant of the loop body that ages an archive by created.
Decide_created(w, bk, month, meta, age_limit) ==
    IF month \notin w.keep_monthly
    THEN [w EXCEPT !.keep_monthly = w.keep_monthly \cup {month}]
    ELSE IF meta = None THEN w
    ELSE IF meta.created < age_limit THEN Delete(w, bk, meta.open_checksum)
    ELSE w

\* The body of the loop once the name has been parsed.
Decide(w, bk, month, meta, age_limit) ==
    IF month \notin w.keep_monthly
    THEN [w EXCEPT !.keep_monthly = w.keep_monthly \cup {month}]
    ELSE IF meta = None THEN w
    ELSE IF meta.touched < age_limit THEN Delete(w, bk, meta.open_checksum)
    ELSE w

\* One iteration of the loop over backups[keep_archives:].
Consider(w, bk, age_limit) ==
    IF ~IsArchiveName(bk)
    THEN [w EXCEPT !.raised = "BackupException"]
    ELSE Decide(w, bk, get_month_from_backup_file(bk),
                get_from_encrypted_name(w.m, bk), age_limit)

RECURSIVE Walk(_, _, _, _)
Walk(w, seq, i, age_limit) ==
    IF i > Len(seq) \/ w.raised # "no" THEN w
    ELSE Walk(Consider(w, seq[i], age_limit), seq, i + 1, age_limit)

\* The end of cleanup_backups: metadata.write() unless an exception left
\* the function before it.
Finish(w, file) ==
    [files |-> w.files,
     ledger |-> IF w.raised = "no" THEN Metadata_write(w.m).archives ELSE file,
     raised |-> w.raised]

\* cleanup_backups(destdir, prune_backups, prefix) on a directory holding
\* `files` and a metadata.json holding `file`, at time tnow: the files and
\* the ledger file afterwards, and the exception that ended it, if any.
cleanup_backups(files, file, tnow, keep_archives, keep_days, prefix) ==
    Finish(Walk([files |-> files, m |-> Metadata(file),
                 keep_monthly |-> {}, raised |-> "no"],
                Candidates(files, prefix, keep_archives), 1,
                tnow - keep_days * DaySecs),
           file)

(***************************************************************************)
(* State.                                                                  *)
(***************************************************************************)
VARIABLES
    now,       \* the clock, epoch seconds
    disk,      \* names of the files in the backup directory (not metadata.json)
    tarData,   \* the content of the uncompressed tar files on disk
    ledger,    \* the content of metadata.json (<<>>: no file)
    runs,      \* calls started so far
    pc,        \* where the running call stands
    archive,   \* the BackupArchive of the run
    paths,     \* the sorted path list of the run
    idx,       \* the position of the loop over paths
    deadline,  \* timeout_ of the run
    metadata,  \* the Metadata object of the run
    checksum,  \* the checksum of the run's tar file
    branch,    \* what the ledger lookup of the run found
    tarlog,    \* the tar invocations of the run
    result,    \* what the last call returned or raised
    pruned,    \* the arguments and the directory of the last cleanup_backups
    hooked,    \* the pre-hooks of the run and what call_hooks returned
    clean      \* no call has raised and nobody else has changed the directory

vars == <<now, disk, tarData, ledger, runs, pc, archive, paths, idx, deadline,
          metadata, checksum, branch, tarlog, result, pruned, hooked, clean>>

runvars == <<archive, paths, idx, deadline, metadata, checksum, branch, tarlog,
             hooked>>

\* 2023-11-29 22:00:00 UTC: the host's date is 2023-11-30, and one long
\* clock step later it is 2023-12-01 while the UTC month is still November.
Epoch0 == 19690 * DaySecs + 22 * 3600

\* A long clock step: the time between two scheduled calls.
JumpSecs == DaySecs

Prefix_bk == <<98, 107>>          \* "bk"
Prefix_bka == <<98, 107, 97>>     \* "bka"

\* Inputs of the calls.
Prefixes == {Prefix_bk, Prefix_bka}
\* The inputs of a run: the source specs, each as the paths its glob expands
\* to, and the configured pre-hooks, each with the name it is found under
\* ("any" for a hook file named in the configuration, "pre" or "post" for
\* an executable pre_* or post_* of a configured hook directory), how it
\* ends and the lines it prints.
StartInputs ==
    {[sources |-> <<>>, pre_hooks |-> <<>>],
     [sources |-> <<<<3, 1>>, <<2>>>>, pre_hooks |-> <<>>],
     [sources |-> <<<<1>>>>,
      pre_hooks |-> <<[named |-> "pre", outcome |-> "exit", lines |-> <<3>>],
                      [named |-> "post", outcome |-> "ok", lines |-> <<2>>],
                      [named |-> "any", outcome |-> "ok", lines |-> <<1>>],
                      [named |-> "pre", outcome |-> "timeout",
                       lines |-> <<2>>]>>],
     [sources |-> <<<<2>>>>,
      pre_hooks |-> <<[named |-> "pre", outcome |-> "ok", lines |-> <<1>>],
                      [named |-> "post", outcome |-> "timeout",
                       lines |-> <<>>]>>]}
KeepArchivesValues == 0..MaxKeepArchives
KeepDaysValues == {1}
Timeouts == 0..MaxTimeout
Versions == 1..MaxVersion
Policies ==
    {None} \cup [keep_archives : KeepArchivesValues, keep_days : KeepDaysValues]

NoArchive ==
    [prefix |-> <<>>, time |-> 0, archivename |-> <<>>,
     compressed_file |-> None, added |-> {}, failed |-> {}]

NoMetadata == Metadata(<<>>)

NoFiles == [f \in {} |-> <<>>]

NoHooks == [pre_hooks |-> <<>>, success |-> TRUE, extra_paths |-> <<>>]

Init ==
    /\ now = Epoch0
    /\ disk = {}
    /\ tarData = NoFiles
    /\ ledger = <<>>
    /\ runs = 0
    /\ pc = "idle"
    /\ archive = NoArchive
    /\ paths = <<>>
    /\ idx = 0
    /\ deadline = 0
    /\ metadata = NoMetadata
    /\ checksum = None
    /\ branch = "none"
    /\ tarlog = <<>>
    /\ result = None
    /\ pruned = None
    /\ hooked = NoHooks
    /\ clean = TRUE

\* archive.tar_file
tar_file == archive.archivename

\* The tar contents without those of file f.
Drop(data, f) == [g \in DOMAIN data \ {f} |-> data[g]]

\* The tar contents with file f holding members.
Put(data, f, members) ==
    [g \in DOMAIN data \cup {f} |-> IF g = f THEN members ELSE data[g]]

\* BackupArchive.unlink: the directory without the tar file and without the
\* compressed file, if there is one (missing_ok).
Unlink(files, a) ==
    files \ ({a.archivename} \cup
             (IF a.compressed_file = None THEN {} ELSE {a.compressed_file}))

\* hashlib.sha256 of the tar file: equal contents, equal checksums.
sha256(members) == members

\* Result(ok, created, meta, paths)
Result(ok, created, meta, rpaths) ==
    [ok |-> ok, created |-> created, meta |-> meta, paths |-> rpaths]

\* What a call that ended in an exception leaves to its caller.
Raised(exc) == [raised |-> exc]

\* `failure` of make_backup, lines 208-214: a pre-hook has failed.
failure == ~hooked.success

(***************************************************************************)
(* Path collection.                                                        *)
(***************************************************************************)
\* make_source_list: the expansions of the source specs, one after the
\* other.
RECURSIVE make_source_list(_)
make_source_list(sources) ==
    IF sources = <<>> THEN <<>>
    ELSE sources[1] \o make_source_list(Tail(sources))

\* run_hook: the lines of stdout, or None when the hook exits non-zero or
\* times out.
run_hook(hook) ==
    IF hook.outcome = "ok" THEN [lines |-> hook.lines] ELSE None

\* The lines of the hooks that run_hook returned lines for.
HookPaths(hooks) ==
    UNION {{run_hook(hooks[i]).lines[k] :
               k \in DOMAIN run_hook(hooks[i]).lines} :
              i \in {j \in DOMAIN hooks : run_hook(hooks[j]) # None}}

\* list(paths) of a set; the caller sorts it.
ListOf(S) == [i \in 1..Cardinality(S) |-> Nth(S, i)]

\* hooks.HookType.pre, the type make_backup passes at line 210.
HookType_pre == "pre"

\* resolve_hooks(hooks_list, hook_type): the hook files named in the
\* configuration whatever their names, and of a hook directory the
\* executables whose names start with the type.
resolve_hooks(hooks_list, hook_type) ==
    LET Usable(h) == h.named \in {"any", hook_type}
    IN  SelectSeq(hooks_list, Usable)

\* The loop of call_hooks over the resolved hooks.
Called_hooks(resolved) ==
    [success |-> \A i \in DOMAIN resolved : run_hook(resolved[i]) # None,
     paths |-> ListOf(HookPaths(resolved))]

\* The hooks before the first one that fails.
Until_failure(resolved) ==
    SubSeq(resolved, 1,
           Least({i \in DOMAIN resolved : run_hook(resolved[i]) = None}
                     \cup {Len(resolved) + 1}) - 1)

\* Variant of call_hooks: the first failing hook ends the loop.
call_hooks_stop(hooks, hook_type) ==
    IF hooks = <<>>
    THEN [success |-> TRUE, paths |-> <<>>]
    ELSE [success |-> \A i \in DOMAIN resolve_hooks(hooks, hook_type) :
                         run_hook(resolve_hooks(hooks, hook_type)[i]) # None,
          paths |-> ListOf(HookPaths(
                        Until_failure(resolve_hooks(hooks, hook_type))))]

\* call_hooks(hooks, hook_type)
call_hooks(hooks, hook_type) ==
    IF hooks = <<>>
    THEN [success |-> TRUE, paths |-> <<>>]
    ELSE Called_hooks(resolve_hooks(hooks, hook_type))

(***************************************************************************)
(* make_backup, lines 203-221: the ledger is loaded, the paths are         *)
(* collected and sorted, the archive is named from the clock and the       *)
(* deadline is set.                                                        *)
(***************************************************************************)
Collected(pre_hooks, r, collected) ==
    /\ hooked' = [pre_hooks |-> pre_hooks, success |-> r.success,
                  extra_paths |-> r.paths]
    /\ paths' = collected
    /\ pc' = IF collected = <<>> THEN "checksum" ELSE "add"

Hooked(sources, pre_hooks, r) ==
    Collected(pre_hooks, r, SortPaths(make_source_list(sources) \o r.paths))

MBStart(prefix, sources, pre_hooks, timeout) ==
    /\ pc = "idle"
    /\ runs < MaxRuns
    /\ runs' = runs + 1
    /\ metadata' = Metadata(ledger)
    /\ Hooked(sources, pre_hooks, call_hooks(pre_hooks, HookType_pre))
    /\ archive' = [prefix |-> prefix, time |-> now,
                   archivename |-> archivename(prefix, now),
                   compressed_file |-> None, added |-> {}, failed |-> {}]
    /\ deadline' = now + timeout
    /\ idx' = 1
    /\ tarlog' = <<>>
    /\ checksum' = None
    /\ branch' = "none"
    /\ result' = None
    /\ pruned' = None
    /\ UNCHANGED <<now, disk, tarData, ledger, clean>>

\* Variant of line 72 that appends after any earlier invocation.
TarMode_first(a) == IF a.added \cup a.failed # {} THEN "append" ELSE "create"

\* BackupArchive.add, line 72.
TarMode(a) == IF a.added # {} THEN "append" ELSE "create"

\* Variant of lines 226-229 that leaves the loop without recording the
\* path as failed.
MBBudget_nofail ==
    /\ pc = "add"
    /\ now >= deadline
    /\ pc' = "checksum"
    /\ UNCHANGED <<now, disk, tarData, ledger, runs, archive, paths, idx,
                   deadline, hooked, metadata, checksum, branch, tarlog, result, pruned, clean>>

\* Lines 226-229: the deadline has passed when a path is about to be
\* processed.
MBBudget ==
    /\ pc = "add"
    /\ now >= deadline
    /\ archive' = [archive EXCEPT !.failed = archive.failed \cup {paths[idx]}]
    /\ pc' = "checksum"
    /\ UNCHANGED <<now, disk, tarData, ledger, runs, paths, idx, deadline, hooked,
                   metadata, checksum, branch, tarlog, result, pruned, clean>>

\* The members of tar file f; tar --append starts an archive that does not
\* exist.
Members(data, f) == IF f \in DOMAIN data THEN data[f] ELSE <<>>

\* The tar file after a tar command: a successful one adds the path with
\* the content it has; a failed --create leaves an archive without members
\* or no file at all; a failed --append leaves the archive as it was.
TarData(mode, outcome, ver, left, path) ==
    IF outcome = "ok"
    THEN Put(tarData, tar_file,
             IF mode = "create" THEN <<<<path, ver>>>>
             ELSE Append(Members(tarData, tar_file), <<path, ver>>))
    ELSE IF mode = "create" /\ left = "empty" THEN Put(tarData, tar_file, <<>>)
    ELSE tarData

Added(mode, outcome, ver, left, path) ==
    /\ tarlog' = Append(tarlog, [path |-> path, mode |-> mode, outcome |-> outcome])
    /\ tarData' = TarData(mode, outcome, ver, left, path)
    /\ disk' = disk \cup DOMAIN tarData'
    /\ archive' = IF outcome = "ok"
                  THEN [archive EXCEPT !.added = archive.added \cup {path}]
                  ELSE [archive EXCEPT !.failed = archive.failed \cup {path}]

\* Variant of the loop that leaves at the first failed tar command.
MBAdd_abort(outcome, ver, left) ==
    /\ pc = "add"
    /\ now < deadline
    /\ left = "none" \/ (outcome # "ok" /\ TarMode(archive) = "create")
    /\ Added(TarMode(archive), outcome, ver, left, paths[idx])
    /\ idx' = idx + 1
    /\ pc' = IF idx + 1 > Len(paths) \/ outcome # "ok" THEN "checksum" ELSE "add"
    /\ UNCHANGED <<now, ledger, runs, paths, deadline, hooked, metadata, checksum,
                   branch, result, pruned, clean>>

\* Line 230, BackupArchive.add: one tar command for the next path.
MBAdd(outcome, ver, left) ==
    /\ pc = "add"
    /\ now < deadline
    /\ left = "none" \/ (outcome # "ok" /\ TarMode(archive) = "create")
    /\ Added(TarMode(archive), outcome, ver, left, paths[idx])
    /\ idx' = idx + 1
    /\ pc' = IF idx + 1 > Len(paths) THEN "checksum" ELSE "add"
    /\ UNCHANGED <<now, ledger, runs, paths, deadline, hooked, metadata, checksum,
                   branch, result, pruned, clean>>

\* Lines 238-243: the checksum is known and its file exists.
Dup(chk, m) ==
    /\ checksum' = chk
    /\ branch' = "dup"
    /\ disk' = Unlink(disk, archive)
    /\ tarData' = Drop(tarData, tar_file)
    /\ metadata' = m
    /\ ledger' = m.archives
    /\ result' = Result(~failure, FALSE, <<>>, <<>>)
    /\ pc' = "done"
    /\ UNCHANGED clean

\* Lines 244-249 and the fall through of line 233.
Fresh(chk, br, m) ==
    /\ checksum' = chk
    /\ branch' = br
    /\ metadata' = m
    /\ pc' = "compress"
    /\ UNCHANGED <<disk, tarData, ledger, result, clean>>

Looked(chk, existing) ==
    IF existing # None /\ existing.encrypted \in disk
    THEN Dup(chk, Metadata_write(Metadata_add(metadata, chk,
                     archive.compressed_file, archive.time, now)))
    ELSE IF existing # None
    THEN Fresh(chk, "stale", Metadata_remove(metadata, chk))
    ELSE Fresh(chk, "new", metadata)

Checked(chk) == Looked(chk, get_archive(metadata, chk))

\* Lines 231-249: make_checksum and the ledger lookup.  The assert of line
\* 60 fails when no tar command has left a tar file.
MBChecksum ==
    /\ pc = "checksum"
    /\ IF tar_file \in disk
       THEN Checked(sha256(tarData[tar_file]))
       ELSE /\ result' = Raised("AssertionError")
            /\ pc' = "raised"
            /\ clean' = FALSE
            /\ UNCHANGED <<disk, tarData, ledger, metadata, checksum, branch>>
    /\ UNCHANGED <<now, runs, archive, paths, idx, deadline, hooked, tarlog, pruned>>

\* backup_dir.glob(archivename + "*"): in the order the directory gives.
Glob(files, name) == {f \in files : StartsWith(f, name)}

Stored(m) ==
    /\ metadata' = m
    /\ ledger' = m.archives

Compressed(files, compressed_file) ==
    /\ disk' = files
    /\ tarData' = Drop(tarData, tar_file)
    /\ archive' = [archive EXCEPT !.compressed_file = compressed_file]
    /\ Stored(Metadata_write(Metadata_add(metadata, checksum, compressed_file,
                                          archive.time, now)))
    /\ pc' = "encrypt"
    /\ UNCHANGED <<result, clean>>

Globbed(files) == \E f \in Glob(files, archive.archivename) : Compressed(files, f)

\* Lines 251-253: the compressor replaces the tar file by the compressed
\* file, the first name the glob gives becomes compressed_file, and the new
\* entry is added to the ledger and written.
MBCompress(ok) ==
    /\ pc = "compress"
    /\ IF ok
       THEN Globbed((disk \ {tar_file}) \cup {tar_file \o Str_gz})
       ELSE /\ result' = Raised("BackupException")
            /\ pc' = "raised"
            /\ clean' = FALSE
            /\ UNCHANGED <<disk, tarData, ledger, archive, metadata>>
    /\ UNCHANGED <<now, runs, paths, idx, deadline, hooked, checksum, branch, tarlog,
                   pruned>>

\* What is remembered of a cleanup_backups call: its arguments, the
\* directory and the ledger file it found, and how it ended.
PruneRecord(files, file, tnow, keep_archives, keep_days, prefix, raised) ==
    [files |-> files, ledger |-> file, now |-> tnow,
     keep_archives |-> keep_archives, keep_days |-> keep_days,
     prefix |-> prefix, raised |-> raised]

\* The state after a cleanup_backups call that gave r; res is what the
\* caller returns when the call did not raise.
Cleaned(files, keep_archives, keep_days, prefix, r, res) ==
    /\ disk' = r.files
    /\ ledger' = r.ledger
    /\ pruned' = PruneRecord(files, ledger, now, keep_archives, keep_days,
                             prefix, r.raised)
    /\ result' = IF r.raised = "no" THEN res ELSE Raised(r.raised)
    /\ pc' = IF r.raised = "no" THEN "done" ELSE "raised"
    /\ clean' = (clean /\ r.raised = "no")

\* Variant of lines 276-282 that makes the retention pass whether or not a
\* path failed.
Encrypted_always(files, policy, meta) ==
    IF policy = None
    THEN /\ disk' = files
         /\ result' = Result(archive.failed = {} /\ ~failure, TRUE, meta, paths)
         /\ pc' = "done"
         /\ UNCHANGED <<ledger, pruned, clean>>
    ELSE Cleaned(files, policy.keep_archives, policy.keep_days, archive.prefix,
                 cleanup_backups(files, ledger, now, policy.keep_archives,
                                 policy.keep_days, archive.prefix),
                 Result(archive.failed = {} /\ ~failure, TRUE, meta, paths))

\* Lines 276-282: the result of the run, after the retention pass if there
\* is a policy and no path failed.
Encrypted(files, policy, meta) ==
    IF archive.failed # {}
    THEN /\ disk' = files
         /\ result' = Result(FALSE, TRUE, meta, paths)
         /\ pc' = "done"
         /\ UNCHANGED <<ledger, pruned, clean>>
    ELSE IF policy = None
    THEN /\ disk' = files
         /\ result' = Result(~failure, TRUE, meta, paths)
         /\ pc' = "done"
         /\ UNCHANGED <<ledger, pruned, clean>>
    ELSE Cleaned(files, policy.keep_archives, policy.keep_days, archive.prefix,
                 cleanup_backups(files, ledger, now, policy.keep_archives,
                                 policy.keep_days, archive.prefix),
                 Result(~failure, TRUE, meta, paths))

\* Lines 255-282: gpg writes the encrypted file or exits non-zero
\* (check_returncode raises CalledProcessError); after it the tar and the
\* compressed file are unlinked.
MBEncrypt(ok, policy) ==
    /\ pc = "encrypt"
    /\ IF ok
       THEN Encrypted(Unlink(disk \cup {path_encrypted(archive.compressed_file)},
                             archive),
                      policy, get_archive(metadata, checksum))
       ELSE /\ result' = Raised("CalledProcessError")
            /\ pc' = "raised"
            /\ clean' = FALSE
            /\ UNCHANGED <<disk, ledger, pruned>>
    /\ UNCHANGED <<now, tarData, runs, runvars>>

\* A call of cleanup_backups on its own.
Prune(keep_archives, keep_days, prefix) ==
    /\ pc = "idle"
    /\ Cleaned(disk, keep_archives, keep_days, prefix,
               cleanup_backups(disk, ledger, now, keep_archives, keep_days,
                               prefix),
               None)
    /\ UNCHANGED <<now, tarData, runs, runvars>>

\* The call is over: its objects are gone.
Return ==
    /\ pc \in {"done", "raised"}
    /\ pc' = "idle"
    /\ archive' = NoArchive
    /\ paths' = <<>>
    /\ idx' = 0
    /\ deadline' = 0
    /\ metadata' = NoMetadata
    /\ checksum' = None
    /\ branch' = "none"
    /\ tarlog' = <<>>
    /\ result' = None
    /\ pruned' = None
    /\ hooked' = NoHooks
    /\ UNCHANGED <<now, disk, tarData, ledger, runs, clean>>

\* A second passes: between calls, between two tar commands, between two
\* Metadata calls.
Tick ==
    /\ pc \in {"idle", "add", "api"}
    /\ (now - Epoch0) % JumpSecs < MaxSecTicks
    /\ now' = now + 1
    /\ UNCHANGED <<disk, tarData, ledger, runs, pc, runvars, result, pruned, clean>>

\* A day passes between two calls.
Jump ==
    /\ pc = "idle"
    /\ (now - Epoch0) \div JumpSecs < MaxJumps
    /\ now' = now + JumpSecs
    /\ UNCHANGED <<disk, tarData, ledger, runs, pc, runvars, result, pruned, clean>>

\* The user removes an encrypted file from the directory between calls.
UserDelete(f) ==
    /\ pc = "idle"
    /\ f \in disk
    /\ EndsWith(f, Str_gpg)
    /\ disk' = disk \ {f}
    /\ clean' = FALSE
    /\ UNCHANGED <<now, tarData, ledger, runs, pc, runvars, result, pruned>>

Next ==
    \/ \E inp \in StartInputs, timeout \in Timeouts :
          MBStart(Prefix_bk, inp.sources, inp.pre_hooks, timeout)
    \/ MBBudget
    \/ \E outcome \in {"ok", "exit", "timeout"}, ver \in Versions,
          left \in {"none", "empty"} : MBAdd(outcome, ver, left)
    \/ MBChecksum
    \/ \E ok \in BOOLEAN : MBCompress(ok)
    \/ \E ok \in BOOLEAN, policy \in Policies : MBEncrypt(ok, policy)
    \/ \E keep_archives \in KeepArchivesValues, keep_days \in KeepDaysValues :
          Prune(keep_archives, keep_days, Prefix_bk)
    \/ Return
    \/ Tick
    \/ Jump
    \/ \E f \in disk : UserDelete(f)

Spec == Init /\ [][Next]_vars

(***************************************************************************)
(* SpecPrune: cleanup_backups on a drawn directory.  The directory holds   *)
(* encrypted archives of the prefixes "bk" and "bka", made in November and *)
(* December 2023, and files that are not archives but start with "bk" and  *)
(* end with ".gpg".  An archive has no ledger entry, an entry that was     *)
(* never refreshed, or an entry refreshed at the time of the call.         *)
(***************************************************************************)
PruneNow == Epoch0 + 3 * DaySecs + 1

PoolSeq ==
    <<[prefix |-> Prefix_bk,  time |-> Epoch0],
      [prefix |-> Prefix_bka, time |-> Epoch0],
      [prefix |-> Prefix_bka, time |-> Epoch0 + 1],
      [prefix |-> Prefix_bk,  time |-> Epoch0 + 2],
      [prefix |-> Prefix_bk,  time |-> Epoch0 + 2 * DaySecs]>>

\* "bkz.gpg" and "bk-n.gpg"
ForeignNames == {<<98, 107, 122>> \o Str_gpg, <<98, 107, 45, 110>> \o Str_gpg}

PruneKeepArchives == 0..(MaxKeepArchives + 1)
PruneKeepDays == {1, 30}

\* The compressed file of the k-th archive of the pool.
PoolFile(k) == archivename(PoolSeq[k].prefix, PoolSeq[k].time) \o Str_gz

PoolEntry(k, st) ==
    IF st = "fresh"
    THEN Touch(NewEntry(<<<<k, 0>>>>, PoolFile(k), PoolSeq[k].time), PruneNow)
    ELSE NewEntry(<<<<k, 0>>>>, PoolFile(k), PoolSeq[k].time)

InLedger(st) == {k \in DOMAIN st : st[k] # "none"}

\* The ledger file for the archives with an entry, as write leaves it.
PoolLedger(st) ==
    SortByTouched([i \in 1..Cardinality(InLedger(st)) |->
                      PoolEntry(Nth(InLedger(st), i), st[Nth(InLedger(st), i)])])

InitPrune ==
    \E A \in SUBSET DOMAIN PoolSeq, F \in SUBSET ForeignNames :
       \E st \in [DOMAIN PoolSeq -> {"none", "old", "fresh"}] :
          /\ Cardinality(A) + Cardinality(F) <= MaxFiles
          /\ \A k \in DOMAIN PoolSeq : k \notin A => st[k] = "none"
          /\ now = PruneNow
          /\ disk = {path_encrypted(PoolFile(k)) : k \in A} \cup F
          /\ tarData = NoFiles
          /\ ledger = PoolLedger(st)
          /\ runs = 0
          /\ pc = "idle"
          /\ archive = NoArchive
          /\ paths = <<>>
          /\ idx = 0
          /\ deadline = 0
          /\ metadata = NoMetadata
          /\ checksum = None
          /\ branch = "none"
          /\ tarlog = <<>>
          /\ result = None
          /\ pruned = None
          /\ hooked = NoHooks
          /\ clean = FALSE

NextPrune ==
    \/ \E keep_archives \in PruneKeepArchives, keep_days \in PruneKeepDays,
          prefix \in Prefixes : Prune(keep_archives, keep_days, prefix)
    \/ Return

SpecPrune == InitPrune /\ [][NextPrune]_vars

(***************************************************************************)
(* SpecLedger: a Metadata object of an empty directory, driven through     *)
(* its methods; the archives handed to add were made at or before the      *)
(* call.                                                                   *)
(***************************************************************************)
ApiChecksums == {<<<<1, v>>>> : v \in 1..(MaxVersion + 1)}

ApiTimes == Epoch0..now

InitLedger ==
    /\ now = Epoch0
    /\ disk = {}
    /\ tarData = NoFiles
    /\ ledger = <<>>
    /\ runs = 0
    /\ pc = "api"
    /\ archive = NoArchive
    /\ paths = <<>>
    /\ idx = 0
    /\ deadline = 0
    /\ metadata = NoMetadata
    /\ checksum = None
    /\ branch = "none"
    /\ tarlog = <<>>
    /\ result = None
    /\ pruned = None
    /\ hooked = NoHooks
    /\ clean = TRUE

Called(op, chk, raised) ==
    /\ runs' = runs + 1
    /\ result' = [op |-> op, chk |-> chk, before |-> metadata, now |-> now,
                  raised |-> raised]

\* metadata.add(chk, archive)
ApiAdd(chk, atime) ==
    /\ pc = "api"
    /\ runs < MaxCalls
    /\ archive' = [NoArchive EXCEPT !.prefix = Prefix_bk, !.time = atime,
                      !.compressed_file = archivename(Prefix_bk, atime) \o Str_gz]
    /\ metadata' = Metadata_add(metadata, chk, archive'.compressed_file,
                                atime, now)
    /\ Called("add", chk, "no")
    /\ UNCHANGED <<now, disk, tarData, ledger, pc, paths, idx, deadline, hooked,
                   checksum, branch, tarlog, pruned, clean>>

\* metadata.remove(chk)
ApiRemove(chk) ==
    /\ pc = "api"
    /\ runs < MaxCalls
    /\ IF CanRemove(metadata, chk)
       THEN /\ metadata' = Metadata_remove(metadata, chk)
            /\ Called("remove", chk, "no")
       ELSE /\ metadata' = metadata
            /\ Called("remove", chk, "KeyError")
    /\ UNCHANGED <<now, disk, tarData, ledger, pc, archive, paths, idx,
                   deadline, hooked, checksum, branch, tarlog, pruned, clean>>

\* metadata.write()
ApiWrite ==
    /\ pc = "api"
    /\ runs < MaxCalls
    /\ metadata' = Metadata_write(metadata)
    /\ ledger' = metadata'.archives
    /\ Called("write", None, "no")
    /\ UNCHANGED <<now, disk, tarData, pc, archive, paths, idx, deadline, hooked,
                   checksum, branch, tarlog, pruned, clean>>

\* metadata = Metadata(backup_dir)
ApiLoad ==
    /\ pc = "api"
    /\ runs < MaxCalls
    /\ metadata' = Metadata(ledger)
    /\ Called("load", None, "no")
    /\ UNCHANGED <<now, disk, tarData, ledger, pc, archive, paths, idx,
                   deadline, hooked, checksum, branch, tarlog, pruned, clean>>

NextLedger ==
    \/ \E chk \in ApiChecksums, atime \in ApiTimes : ApiAdd(chk, atime)
    \/ \E chk \in ApiChecksums : ApiRemove(chk)
    \/ ApiWrite
    \/ ApiLoad
    \/ Tick

SpecLedger == InitLedger /\ [][NextLedger]_vars


(***************************************************************************)
(* Archive names on their own: an archive is named at an instant, its      *)
(* name gets the suffixes of the compressor and of gpg, and                *)
(* get_month_from_backup_file reads the month back from the name.          *)
(***************************************************************************)
Prefix_dash == <<98, 45, 107>>         \* "b-k"
\* "b_1600000000_x"
Prefix_epoch == <<98, 95, 49, 54, 48, 48, 48, 48, 48, 48, 48, 48, 95, 120>>

\* Prefixes of word characters and hyphens.
NamePrefixes == {Prefix_bk, Prefix_bka, Prefix_dash, Prefix_epoch}

\* Instants around midnight, UTC and local, at the end of a month.
NameInstants ==
    {Epoch0 + d * DaySecs + s : d \in 0..2, s \in {0, 7199, 7200}}

InitName ==
    /\ now \in NameInstants
    /\ disk = {}
    /\ tarData = NoFiles
    /\ ledger = <<>>
    /\ runs = 0
    /\ pc = "name"
    /\ archive = NoArchive
    /\ paths = <<>>
    /\ idx = 1
    /\ deadline = 0
    /\ metadata = NoMetadata
    /\ checksum = None
    /\ branch = "none"
    /\ tarlog = <<>>
    /\ result = None
    /\ pruned = None
    /\ hooked = NoHooks
    /\ clean = TRUE

Named(a) ==
    /\ archive' = a
    /\ result' = None
    /\ UNCHANGED <<now, disk, tarData, ledger, runs, pc, paths, idx, deadline,
                   metadata, checksum, branch, tarlog, pruned, hooked, clean>>

\* BackupArchive.__init__
NameArchive(prefix) ==
    /\ pc = "name"
    /\ archive = NoArchive
    /\ Named([prefix |-> prefix, time |-> now,
              archivename |-> archivename(prefix, now),
              compressed_file |-> None, added |-> {}, failed |-> {}])

\* The compressor's file, as compress() finds it.
NameCompress ==
    /\ pc = "name"
    /\ archive # NoArchive
    /\ archive.compressed_file = None
    /\ Named([archive EXCEPT !.compressed_file = tar_file \o Str_gz])

\* The file that cleanup_backups lists: path_encrypted of the compressed
\* file.
FileName ==
    IF archive.compressed_file = None THEN tar_file
    ELSE path_encrypted(archive.compressed_file)

\* get_month_from_backup_file(path), with its raise
NameMonth ==
    /\ pc = "name"
    /\ archive # NoArchive
    /\ result = None
    /\ result' = IF IsArchiveName(FileName)
                 THEN [month |-> get_month_from_backup_file(FileName)]
                 ELSE Raised("BackupException")
    /\ UNCHANGED <<now, disk, tarData, ledger, runs, pc, archive, paths, idx,
                   deadline, metadata, checksum, branch, tarlog, pruned,
                   hooked, clean>>

NextName ==
    \/ \E prefix \in NamePrefixes : NameArchive(prefix)
    \/ NameCompress
    \/ NameMonth

SpecName == InitName /\ [][NextName]_vars

(***************************************************************************)
(* SpecRetain: make_backup with a retention policy in a directory that     *)
(* another backup set, of prefix "bka", shares: the directory holds        *)
(* archives of that set made the day before, each with its ledger entry,   *)
(* and files that are not archives but start with "bk" and end with        *)
(* ".gpg".  gpg is run without a timeout (line 268) and may take a day.    *)
(***************************************************************************)
RetainSeq ==
    <<[prefix |-> Prefix_bka, time |-> Epoch0 - DaySecs],
      [prefix |-> Prefix_bka, time |-> Epoch0 - DaySecs + 1]>>

\* The compressed file of the k-th archive of the other set.
RetainFile(k) == archivename(RetainSeq[k].prefix, RetainSeq[k].time) \o Str_gz

\* The ledger file with the entries of the archives in A, as write leaves it.
RetainLedger(A) ==
    SortByTouched([i \in 1..Cardinality(A) |->
                      NewEntry(<<<<Nth(A, i), 0>>>>, RetainFile(Nth(A, i)),
                               RetainSeq[Nth(A, i)].time)])

InitRetain ==
    \E A \in SUBSET DOMAIN RetainSeq, F \in SUBSET ForeignNames :
       /\ now = Epoch0
       /\ disk = {path_encrypted(RetainFile(k)) : k \in A} \cup F
       /\ tarData = NoFiles
       /\ ledger = RetainLedger(A)
       /\ runs = 0
       /\ pc = "idle"
       /\ archive = NoArchive
       /\ paths = <<>>
       /\ idx = 0
       /\ deadline = 0
       /\ metadata = NoMetadata
       /\ checksum = None
       /\ branch = "none"
       /\ tarlog = <<>>
       /\ result = None
       /\ pruned = None
       /\ hooked = NoHooks
       /\ clean = TRUE

\* A day passes while gpg runs, or a day and a second.
GpgWait(secs) ==
    /\ pc = "encrypt"
    /\ (now - Epoch0) \div JumpSecs < MaxJumps
    /\ now' = now + secs
    /\ UNCHANGED <<disk, tarData, ledger, runs, pc, runvars, result, pruned,
                   clean>>

NextRetain ==
    \/ \E timeout \in Timeouts : MBStart(Prefix_bk, <<<<1>>>>, <<>>, timeout)
    \/ MBBudget
    \/ \E outcome \in {"ok", "exit", "timeout"}, ver \in Versions,
          left \in {"none", "empty"} : MBAdd(outcome, ver, left)
    \/ MBChecksum
    \/ \E ok \in BOOLEAN : MBCompress(ok)
    \/ \E ok \in BOOLEAN, policy \in Policies : MBEncrypt(ok, policy)
    \/ Return
    \/ Tick
    \/ \E secs \in {JumpSecs, JumpSecs + 1} : GpgWait(secs)

SpecRetain == InitRetain /\ [][NextRetain]_vars
(***************************************************************************)
(* Properties.                                                             *)
(***************************************************************************)
\* The archives among the listed files, and what their names say.
ArchivesIn(files, prefix) == {f \in Backups(files, prefix) : IsArchiveName(f)}

MonthsIn(files, prefix) ==
    {get_month_from_backup_file(f) : f \in ArchivesIn(files, prefix)}

Instant(f) == ParseDec(EpochGroup(f))

\* The files the last cleanup_backups call deleted.
Deleted == pruned.files \ disk

\* The place of a listed file in the descending order of names.
Place(files, prefix, f) ==
    1 + Cardinality({g \in Backups(files, prefix) : StrLess(f, g)})

\* The files walked before f: after the first keep_archives, before f.
WalkedBefore(f) ==
    {g \in Backups(pruned.files, pruned.prefix) :
        /\ Place(pruned.files, pruned.prefix, g) > pruned.keep_archives
        /\ StrLess(f, g)}

\* The entries of a ledger with a checksum.
EntriesOf(archives, chk) ==
    {i \in DOMAIN archives : archives[i].open_checksum = chk}

\* C1: after cleanup_backups ends, every UTC month that had a
\* prefix-matching encrypted archive in the directory before the call still
\* has one on disk, whatever keep_archives, keep_days and the ledger are.
C1_MonthRetention ==
    pruned # None =>
        MonthsIn(pruned.files, pruned.prefix) \subseteq MonthsIn(disk, pruned.prefix)

\* A call that deleted a file from a directory with archives of two months.
C1_Witness ==
    /\ pruned # None
    /\ Deleted # {}
    /\ Cardinality(MonthsIn(pruned.files, pruned.prefix)) = 2

\* C2: when gpg exits non-zero the run is fatal and metadata.json has no
\* entry for the archive of that run, whose encrypted file was never
\* written.
C2_NoEntryForUnwritten ==
    (pc = "raised" /\ result = Raised("CalledProcessError")) =>
        \A i \in EntriesOf(ledger, checksum) : ledger[i].encrypted \in disk

\* What the dedup path of a run does to the directory and the ledger.
DedupStep(old, S) ==
    /\ Cardinality(S) = 1
    /\ Len(ledger') = Len(ledger)
    /\ \A i \in S :
          /\ ledger'[i].created = old.created
          /\ ledger'[i].encrypted = old.encrypted
          /\ ledger'[i].archive = old.archive
          /\ ledger'[i].touched = now
          /\ ledger'[i].touched >= old.touched
    /\ old.encrypted \in disk'
    /\ disk' = disk \ {tar_file}
    /\ tar_file \notin disk'
    /\ archive'.compressed_file = None

\* C3: when a run's tar has the checksum of an entry whose encrypted file
\* is on disk, then after the run the ledger has exactly one entry for the
\* checksum, with created and the names unchanged and touched set to the
\* time of this run; the encrypted file is still there, no encrypted file
\* was added, and the run's tar is gone and no compressed file was made.
C3_DedupIdempotent ==
    [][(pc = "checksum" /\ branch' = "dup") =>
          DedupStep(get_archive(metadata, checksum'),
                    EntriesOf(ledger', checksum'))]_vars

\* A second run found the checksum of the first, a second or more later.
C3_Witness ==
    /\ pc = "done"
    /\ branch = "dup"
    /\ \E i \in EntriesOf(ledger, checksum) :
          /\ ledger[i].touched > ledger[i].created
          /\ ledger[i].encrypted \in disk

\* The conditions of the retention rule for a listed file f, on the
\* directory and the ledger the call found.
C4_Conditions(f) ==
    /\ Place(pruned.files, pruned.prefix, f) > pruned.keep_archives
    /\ IsArchiveName(f)
    /\ \E g \in WalkedBefore(f) :
          /\ IsArchiveName(g)
          /\ get_month_from_backup_file(g) = get_month_from_backup_file(f)
    /\ Matches(pruned.ledger, f) # {}
    /\ pruned.ledger[First(Matches(pruned.ledger, f))].touched
          < pruned.now - pruned.keep_days * DaySecs

C5_NewestSurvive ==
    pruned # None =>
        \A f \in Deleted :
            Cardinality({g \in ArchivesIn(pruned.files, pruned.prefix) \ {f} :
                            Instant(g) >= Instant(f)}) >= pruned.keep_archives

\* C6: a run whose checksum matches an entry whose encrypted file is
\* missing does not fail at the lookup: the entry is removed, the run
\* compresses and adds a new entry with created = touched = the archive's
\* instant and the new names, and when it returns a Result the ledger holds
\* exactly one entry for the checksum, naming a file that exists.
C6_StaleHealed ==
    branch = "stale" =>
        /\ pc \in {"compress", "encrypt", "done", "raised"}
        /\ pc = "compress" =>
              /\ result = None
              /\ EntriesOf(metadata.archives, checksum) = {}
              /\ get_archive(metadata, checksum) = None
        /\ pc = "encrypt" =>
              /\ Cardinality(EntriesOf(ledger, checksum)) = 1
              /\ \A i \in EntriesOf(ledger, checksum) :
                    ledger[i] = [archive |-> archive.compressed_file,
                                 encrypted |-> archive.compressed_file \o Str_gpg,
                                 open_checksum |-> checksum,
                                 created |-> archive.time,
                                 touched |-> archive.time]
        /\ pc = "done" =>
              /\ Cardinality(EntriesOf(ledger, checksum)) = 1
              /\ \A i \in EntriesOf(ledger, checksum) :
                    /\ ledger[i].encrypted \in disk
                    /\ ledger[i].created = archive.time
                    /\ ledger[i].touched = archive.time
                    /\ ledger[i].archive = archive.compressed_file

\* A run that found a stale entry has returned its Result.
C6_Witness ==
    /\ pc = "done"
    /\ branch = "stale"
    /\ result.created

\* The position of the entry of chk in a ledger that has one.
EntryOf(archives, chk) == First(EntriesOf(archives, chk))

\* C7: Metadata.add of a checksum the ledger has only sets that entry's
\* touched to now, leaving the number of entries and every other field of
\* every entry as they were; of a checksum it has not, it appends exactly
\* one entry with created = touched = archive.time, archive = the name of
\* the compressed file and encrypted = that name + ".gpg", leaving the
\* existing entries as they were.
C7_AddFrame ==
    (pc = "api" /\ result # None /\ result.op = "add") =>
        IF EntriesOf(result.before.archives, result.chk) # {}
        THEN metadata.archives =
                [result.before.archives EXCEPT
                    ![EntryOf(result.before.archives, result.chk)].touched =
                        result.now]
        ELSE metadata.archives =
                Append(result.before.archives,
                       [archive |-> archive.compressed_file,
                        encrypted |-> archive.compressed_file \o Str_gpg,
                        open_checksum |-> result.chk,
                        created |-> archive.time,
                        touched |-> archive.time])

\* add has refreshed one of two entries, later than the entry was made.
C7_Witness ==
    /\ pc = "api"
    /\ result # None
    /\ result.op = "add"
    /\ Len(result.before.archives) = 2
    /\ \E i \in EntriesOf(result.before.archives, result.chk) :
          result.before.archives[i].touched < result.now

\* C8: after any sequence of add, remove, write (and loads of what was
\* written) from an empty ledger, the ledger holds at most one entry per
\* checksum, and get_archive gives that entry, or None when there is none.
C8_LedgerUnique ==
    pc = "api" =>
        \A chk \in ApiChecksums :
            /\ Cardinality(EntriesOf(metadata.archives, chk)) <= 1
            /\ Cardinality(EntriesOf(ledger, chk)) <= 1
            /\ EntriesOf(metadata.archives, chk) = {} =>
                  get_archive(metadata, chk) = None
            /\ \A i \in EntriesOf(metadata.archives, chk) :
                  get_archive(metadata, chk) = metadata.archives[i]

\* A ledger of two entries, one of them refreshed by a second add, has
\* been written and an entry removed from it.
C8_Witness ==
    /\ pc = "api"
    /\ result # None
    /\ result.op = "remove"
    /\ result.raised = "no"
    /\ Len(ledger) = 2
    /\ Len(metadata.archives) = 1
    /\ \E i \in DOMAIN ledger : ledger[i].touched > ledger[i].created

\* The loop over the paths ended at the deadline, before the path at idx.
BudgetHit == pc \in {"checksum", "compress", "encrypt", "done", "raised"}
                /\ idx \in 1..Len(paths)

\* C9: when the deadline has been reached as a path is about to be
\* processed, that path is in failed, tar has been run for the paths before
\* it and for no other, and nothing of the later paths is in added or
\* failed.
C9_RunBudget ==
    BudgetHit =>
        /\ paths[idx] \in archive.failed
        /\ Len(tarlog) = idx - 1
        /\ \A k \in DOMAIN tarlog : tarlog[k].path = paths[k]
        /\ archive.added \cup archive.failed \subseteq {paths[k] : k \in 1..idx}
        /\ archive.added \subseteq {paths[k] : k \in 1..(idx - 1)}

\* The deadline passed after the first path, with a path left behind it.
C9_Witness ==
    /\ BudgetHit
    /\ idx > 1
    /\ idx < Len(paths)

\* C10 as stated: the first tar invocation of a run uses --create and every
\* later one --append, whatever the outcomes of the earlier ones.
C10_Original ==
    \A k \in DOMAIN tarlog :
        tarlog[k].mode = IF k = 1 THEN "create" ELSE "append"

\* C10, amended: a tar invocation of a run uses --append exactly when an
\* earlier invocation of the run has succeeded, and --create otherwise.
C10_AppendAfterSuccess ==
    \A k \in DOMAIN tarlog :
        tarlog[k].mode = "append" <=>
            \E j \in 1..(k - 1) : tarlog[j].outcome = "ok"

\* A failed first invocation, a second --create that succeeded, and an
\* --append after it.
C10_Witness ==
    /\ Len(tarlog) = 3
    /\ tarlog[1].outcome # "ok"
    /\ tarlog[2].mode = "create"
    /\ tarlog[2].outcome = "ok"
    /\ tarlog[3].mode = "append"

\* The paths of the tar invocations with an outcome among outs.
LoggedPaths(outs) ==
    {tarlog[k].path : k \in {j \in DOMAIN tarlog : tarlog[j].outcome \in outs}}

\* C11: a tar command that exits non-zero or times out puts exactly its
\* path in failed and the loop goes on: the invocations are those for the
\* list positions so far, one each and in order, all of them once the loop
\* has ended without hitting the deadline; added holds exactly the paths
\* whose invocation succeeded and failed exactly those whose invocation did
\* not (and the path at which the deadline was hit).
C11_PerPathFailure ==
    /\ Len(tarlog) <= Len(paths)
    /\ \A k \in DOMAIN tarlog : tarlog[k].path = paths[k]
    /\ pc = "add" => Len(tarlog) = idx - 1
    /\ (pc \in {"checksum", "compress", "encrypt", "done", "raised"} /\ ~BudgetHit)
          => Len(tarlog) = Len(paths)
    /\ archive.added = LoggedPaths({"ok"})
    /\ archive.failed =
          LoggedPaths({"exit", "timeout"})
              \cup (IF BudgetHit THEN {paths[idx]} ELSE {})

\* A timeout and a non-zero exit were followed by a successful invocation
\* of the last path, and the run went on to its end.
C11_Witness ==
    /\ pc = "done"
    /\ Len(tarlog) = 3
    /\ tarlog[1].outcome = "timeout"
    /\ tarlog[2].outcome = "exit"
    /\ tarlog[3].outcome = "ok"
    /\ Cardinality(archive.failed) = 2

\* C12: a run in which a path failed and no stage was fatal returns a
\* Result with ok = False, on every return of make_backup.
C12_FailedPathNotOk ==
    (pc = "done" /\ archive.failed # {}) => ~result.ok

\* C13: a run in which a path failed does not call cleanup_backups: its
\* last step leaves the ledger file as it was and changes the directory
\* only by what gpg writes and unlink removes; the retention pass of a run is only made when no path failed and a
\* policy was given.
C13_NoPruneAfterFailure ==
    [][pc = "encrypt" =>
          /\ archive.failed # {} =>
                /\ pruned' = None
                /\ ledger' = ledger
                /\ disk' \in {disk,
                             Unlink(disk \cup
                                    {path_encrypted(archive.compressed_file)},
                                    archive)}
          /\ pruned' # None =>
                /\ archive.failed = {}
                /\ pruned'.keep_archives \in KeepArchivesValues
                /\ pruned'.keep_days \in KeepDaysValues]_vars

\* A run with a failed path has returned its Result while an older archive
\* of the month, past keep_days, was on disk.
C13_Witness ==
    /\ pc = "done"
    /\ result # None
    /\ result.created
    /\ archive.failed # {}
    /\ \E i \in DOMAIN ledger :
          /\ ledger[i].touched < now - DaySecs
          /\ ledger[i].encrypted \in disk


(***************************************************************************)
(* C14: the path list handed to the archive builder is sorted ascending    *)
(* and holds no path twice, also when source globs overlap or a hook       *)
(* prints a path that a source matches.                                    *)
(***************************************************************************)
C14_SortedNoDuplicates ==
    \A i, j \in DOMAIN paths : i < j => paths[i] < paths[j]

(***************************************************************************)
(* C15: when make_backup has returned a Result, neither the tar file of    *)
(* the run nor its compressed, unencrypted file is in the directory.       *)
(***************************************************************************)
C15_NoPlaintextLeft ==
    (pc = "done" /\ archive # NoArchive) =>
        /\ tar_file \notin disk
        /\ (tar_file \o Str_gz) \notin disk

\* The pre-hooks of the run that are run, and the lines printed by those of
\* them that exit 0.
RunHooks == resolve_hooks(hooked.pre_hooks, HookType_pre)

ExitedZero == {i \in DOMAIN RunHooks : RunHooks[i].outcome = "ok"}

LinesOf(hook) == {hook.lines[k] : k \in DOMAIN hook.lines}

C17_NameRoundTrip ==
    (pc = "name" /\ result # None) =>
        result = [month |-> MonthOf(gmtime(archive.time))]

(***************************************************************************)
(* C18: when cleanup_backups has ended, the ledger file holds no entry for *)
(* a file the call deleted, whether the walk came to its end or was        *)
(* aborted by 'Invalid archive name'.                                      *)
(***************************************************************************)
C18_LedgerPersisted ==
    pruned # None => \A f \in Deleted : Matches(ledger, f) = {}

(***************************************************************************)
(* C19: the tar file exists every time make_backup reaches make_checksum:  *)
(* no run ends with the AssertionError of line 60.                         *)
(***************************************************************************)
C19_TarFileExists == result # Raised("AssertionError")

\* The encrypted files in the directory.
EncryptedFiles == {f \in disk : EndsWith(f, Str_gpg)}

(***************************************************************************)
(* C20: between calls, when every make_backup run so far has returned a    *)
(* Result, every cleanup_backups call has returned normally and nobody     *)
(* else has changed the directory, every entry of the ledger file names an *)
(* encrypted file that is on disk, and every encrypted file has exactly    *)
(* one entry with its name.                                                *)
(***************************************************************************)
C20_LedgerMatchesDisk ==
    (clean /\ pc \in {"idle", "done"}) =>
        /\ \A i \in DOMAIN ledger : ledger[i].encrypted \in disk
        /\ \A f \in EncryptedFiles : Cardinality(Matches(ledger, f)) = 1

\* The ledger entries of the run's checksum that name the run's encrypted
\* file.
OwnEntries ==
    {i \in DOMAIN ledger :
        /\ ledger[i].open_checksum = checksum
        /\ ledger[i].encrypted = path_encrypted(archive.compressed_file)}

(***************************************************************************)
(* C21: the retention pass at the end of a run neither deletes the         *)
(* encrypted archive the run has just created nor removes its ledger       *)
(* entry, and the meta of the Result names a file that exists.             *)
(***************************************************************************)
C21_OwnArchiveKept ==
    (archive # NoArchive /\ pruned # None) =>
        /\ path_encrypted(archive.compressed_file) \in disk
        /\ OwnEntries # {}
        /\ pc = "done" => result.meta.encrypted \in disk
=============================================================================
